---- MODULE Spec2Model ----
(***************************************************************************)
(* Model of the weather endpoint (src/app/api/weather/route.ts): the WMO   *)
(* condition code mapper, the geocode resolver and the GET handler that    *)
(* normalises an Open-Meteo forecast payload into a WeatherResponse.       *)
(*                                                                         *)
(* JavaScript values are tagged records.  Numbers are fixed point: a       *)
(* number x is held as the integer x * Unit, so that the two-decimal       *)
(* provider readings, their halves and the one-decimal results are all     *)
(* exact.                                                                  *)
(***************************************************************************)
EXTENDS Integers, Sequences, FiniteSets, TLC

(* ---------------------------------------------------------------------- *)
(* JavaScript values                                                       *)
(* ---------------------------------------------------------------------- *)

\* model units per 1.0 (resolution 0.005)
Unit == 2 * 100

Undef == [t |-> "undefined"]
Null == [t |-> "null"]
NaN == [t |-> "NaN"]
\* the number v / Unit
Num(v) == [t |-> "num", v |-> v]
\* the integer n as a JavaScript number
Whole(n) == Num(n * Unit)
\* the reading h / 100 (provider readings carry two decimals)
Reading(h) == Num(h * (Unit \div 100))
Str(s) == [t |-> "str", s |-> s]
\* the ISO-8601 timestamp string of hour k (a non-empty string)
IsoTime(k) == [t |-> "str", iso |-> k]
Arr(a) == [t |-> "array", a |-> a]
\* a string held as its sequence of characters
Text(chars) == [t |-> "str", chars |-> chars]

IsNum(x) == x.t = "num"
IsNullish(x) == x.t \in {"undefined", "null"}

\* ToBoolean: the falsy values are undefined, null, NaN, 0 and ""
Truthy(x) ==
  CASE x.t = "num" -> x.v /= 0
    [] x.t = "str" -> x \notin {Str(""), Text(<<>>)}
    [] x.t = "array" -> TRUE
    [] x.t = "object" -> TRUE
    [] OTHER -> FALSE

\* a || b
OrElse(a, b) == IF Truthy(a) THEN a ELSE b

\* ToNumber, as applied by the arithmetic operators and Math.round
ToNumber(x) ==
  CASE x.t = "num" -> x
    [] x.t = "null" -> Num(0)
    [] x = Str("") -> Num(0)
    [] OTHER -> NaN

\* x * k for an integer literal k
Times(x, k) ==
  LET n == ToNumber(x) IN IF IsNum(n) THEN Num(n.v * k) ELSE NaN

\* x / k for an integer literal k (exact on the values it is applied to)
DividedBy(x, k) ==
  LET n == ToNumber(x) IN IF IsNum(n) THEN Num(n.v \div k) ELSE NaN

\* a + b on numbers (undefined + number is NaN)
Plus(a, b) ==
  LET m == ToNumber(a)
      n == ToNumber(b)
  IN IF a.t = "undefined" \/ b.t = "undefined" THEN NaN
     ELSE IF IsNum(m) /\ IsNum(n) THEN Num(m.v + n.v) ELSE NaN

\* a - b on numbers
Minus(a, b) == Plus(a, Times(b, -1))

\* Math.floor
MathFloor(x) ==
  LET n == ToNumber(x)
  IN IF IsNum(n) THEN Num(Unit * (n.v \div Unit)) ELSE NaN

\* variant: a tie goes away from zero
MathRound_HalfAwayFromZero(x) ==
  LET n == ToNumber(x)
  IN IF ~IsNum(n) THEN NaN
     ELSE IF n.v >= 0 THEN Num(Unit * ((n.v + (Unit \div 2)) \div Unit))
     ELSE Num(0 - Unit * (((0 - n.v) + (Unit \div 2)) \div Unit))

\* Math.round: the nearest integer, a tie going towards +Infinity
MathRound(x) ==
  LET n == ToNumber(x)
  IN IF IsNum(n) THEN Num(Unit * ((n.v + (Unit \div 2)) \div Unit)) ELSE NaN

\* variant: the rounded value is divided by 100
RoundTenth_WrongScale(x) == DividedBy(MathRound(Times(x, 10)), 100)

\* Math.round(x * 10) / 10
RoundTenth(x) == DividedBy(MathRound(Times(x, 10)), 10)

\* arr[i] for a 0-based index i: undefined past the end of the array
At(arr, i) == IF i + 1 \in DOMAIN arr.a THEN arr.a[i + 1] ELSE Undef

\* JSON.stringify of a property value: NaN is written as null, a property
\* whose value is undefined is left out of the object
Absent == [t |-> "absent"]
Json(x) ==
  CASE x.t = "NaN" -> Null
    [] x.t = "undefined" -> Absent
    [] OTHER -> x

(* ---------------------------------------------------------------------- *)
(* Condition code mapper                                                   *)
(* ---------------------------------------------------------------------- *)

TableCodes ==
  {0, 1, 2, 3, 45, 48, 51, 53, 55, 56, 57, 61, 63, 65, 66, 67,
   71, 73, 75, 77, 80, 81, 82, 85, 86, 95, 96, 99}

WMO_WEATHER_CODES ==
  [c \in TableCodes |->
    CASE c = 0 -> "Clear"
      [] c = 1 -> "Mainly Clear"
      [] c = 2 -> "Partly Cloudy"
      [] c = 3 -> "Cloudy"
      [] c \in {45, 48} -> "Foggy"
      [] c = 51 -> "Light Drizzle"
      [] c = 53 -> "Drizzle"
      [] c = 55 -> "Heavy Drizzle"
      [] c \in {56, 57} -> "Freezing Drizzle"
      [] c = 61 -> "Light Rain"
      [] c = 63 -> "Rain"
      [] c = 65 -> "Heavy Rain"
      [] c \in {66, 67} -> "Freezing Rain"
      [] c = 71 -> "Light Snow"
      [] c = 73 -> "Snow"
      [] c = 75 -> "Heavy Snow"
      [] c = 77 -> "Snow Grains"
      [] c = 80 -> "Light Rain Showers"
      [] c = 81 -> "Rain Showers"
      [] c = 82 -> "Heavy Rain Showers"
      [] c = 85 -> "Light Snow Showers"
      [] c = 86 -> "Snow Showers"
      [] c = 95 -> "Thunderstorm"
      [] c \in {96, 99} -> "Thunderstorm with Hail"]

\* WMO_WEATHER_CODES[code]: the property named by the code, undefined when
\* the table has no such property
TableLookup(code) ==
  IF IsNum(code) /\ code.v % Unit = 0 /\ (code.v \div Unit) \in TableCodes
  THEN Str(WMO_WEATHER_CODES[code.v \div Unit])
  ELSE Undef

\* variant: the lookup without the 'Unknown' fallback
getWeatherCondition_NoFallback(code) == TableLookup(code)

\* variant: the code itself is tested for truthiness before the lookup
getWeatherCondition_FalsyZero(code) ==
  IF Truthy(code) THEN OrElse(TableLookup(code), Str("Unknown"))
  ELSE Str("Unknown")

getWeatherCondition(code) == OrElse(TableLookup(code), Str("Unknown"))

(* ---------------------------------------------------------------------- *)
(* Inputs: the request, and what the two upstream services may answer      *)
(* ---------------------------------------------------------------------- *)

\* iterations of the hourly loop
HourlyCount == 24
\* iterations of the daily loop
DailyCount == 7
\* how far a provider series may fall short of, or exceed, what is read
MaxExtra == 1

\* searchParams.get('location'): null when the parameter is absent
Locations == {Null, Str(""), Str("Paris")}

NoData == Undef
Reply(kind, payload) == [kind |-> kind, data |-> payload]

\* a geocoding match: optional name parts and the coordinates
Match(name, admin1, country, lat, lon) ==
  [t |-> "object", name |-> name, admin1 |-> admin1, country |-> country,
   latitude |-> lat, longitude |-> lon]

\* the name parts vary independently; the nameless matches are the ones in
\* the southern hemisphere
Matches ==
  {Match(n, a, c,
         IF n = Undef THEN Reading(-3387) ELSE Reading(4885),
         IF n = Undef THEN Reading(15121) ELSE Reading(235)) :
     n \in {Undef, Str("Paris")}, a \in {Str(""), Str("Ile-de-France")},
     c \in {Undef, Str("France")}}

GeocodeBody(results) == [t |-> "object", results |-> results]

GeocodeBodies ==
  {Null, GeocodeBody(Undef), GeocodeBody(Arr(<<>>)), GeocodeBody(Arr(<<Null>>))}
    \cup {GeocodeBody(Arr(<<m>>)) : m \in Matches}

GeocodeReplies ==
  {Reply("throw", NoData), Reply("notok", NoData), Reply("badjson", NoData)}
    \cup {Reply("json", d) : d \in GeocodeBodies}

\* a provider series of n points: base, base + step, ... (hundredths)
Series(n, base, step) == Arr([i \in 1..n |-> Reading(base + step * (i - 1))])
\* n consecutive weather codes starting at base
CodeSeries(n, base) == Arr([i \in 1..n |-> Whole(base + (i - 1))])
\* n consecutive hourly (or daily) timestamps starting at hour k
TimeSeries(n, k, step) == Arr([i \in 1..n |-> IsoTime(k + step * (i - 1))])

SeriesLengths(count) == {count - MaxExtra, count, count + MaxExtra}

CurrentSection(time, temp, code, uv) ==
  [t |-> "object", time |-> time, temperature_2m |-> temp,
   weather_code |-> code, uv_index |-> uv]

HourlySection(time, temp, code) ==
  [t |-> "object", time |-> time, temperature_2m |-> temp, weather_code |-> code]

DailySection(time, tmin, tmax, code, uv) ==
  [t |-> "object", time |-> time, temperature_2m_min |-> tmin,
   temperature_2m_max |-> tmax, weather_code |-> code, uv_index_max |-> uv]

ForecastBody(current, hourly, daily, timezone) ==
  [t |-> "object", current |-> current, hourly |-> hourly, daily |-> daily,
   timezone |-> timezone]

\* a cold reading without a weather code, or a warm one with a code
Currents ==
  {CurrentSection(IsoTime(10), tc[1], tc[2], uv) :
     tc \in {<<Reading(-125), Undef>>, <<Reading(2317), Whole(95)>>},
     uv \in {Undef, Str("n/a"), Reading(-260), Reading(349)}}

\* readings 0.05 apart, codes consecutive: sub-zero readings with the codes
\* from -1 up in a series that starts at the hour of current.time, or warm
\* readings with the codes from 45 up in a series that starts at midnight
\* (hour 0), as a forecast requested without a start hour does
Hourlies ==
  {HourlySection(TimeSeries(n, tc[3], 1), Series(n, tc[1], 5), CodeSeries(n, tc[2])) :
     n \in SeriesLengths(HourlyCount), tc \in {<<-130, -1, 10>>, <<1005, 45, 0>>}}

\* daily minima 1.15 apart from -1.40; the maxima lie spread above them (or
\* below, for a provider that swaps the two); UV maxima 1.0 apart
Dailies ==
  {DailySection(TimeSeries(n, 0, 24), Series(n, -140, 115),
                Series(n, -140 + su[1], 115), CodeSeries(n, 60),
                Series(n, su[2], 100)) :
     n \in SeriesLengths(DailyCount),
     su \in {<<-305, 40>>, <<0, -250>>, <<465, 40>>}}

Timezones == {Undef, Str(""), Str("Europe/Paris")}

\* payloads with every section and array present
FullBodies ==
  {ForecastBody(c, h, d, tz) :
     c \in Currents, h \in Hourlies, d \in Dailies, tz \in Timezones}

\* one well-formed payload, and the payloads it becomes when a section or
\* one of its arrays is left out
SomeCurrent == CurrentSection(IsoTime(10), Reading(2317), Whole(95), Reading(349))
SomeHourly ==
  HourlySection(TimeSeries(HourlyCount, 10, 1), Series(HourlyCount, 1005, 5),
                CodeSeries(HourlyCount, 45))
SomeDaily ==
  DailySection(TimeSeries(DailyCount, 0, 24), Series(DailyCount, -140, 115),
               Series(DailyCount, 320, 115), CodeSeries(DailyCount, 60),
               Series(DailyCount, 40, 100))

BrokenBodies ==
  {Null,
   ForecastBody(Undef, SomeHourly, SomeDaily, Undef),
   ForecastBody(SomeCurrent, Undef, SomeDaily, Undef),
   ForecastBody(SomeCurrent, SomeHourly, Undef, Undef),
   ForecastBody(SomeCurrent, [SomeHourly EXCEPT !.temperature_2m = Undef],
                SomeDaily, Undef),
   ForecastBody(SomeCurrent, [SomeHourly EXCEPT !.time = Undef],
                SomeDaily, Undef),
   ForecastBody(SomeCurrent, [SomeHourly EXCEPT !.weather_code = Undef],
                SomeDaily, Undef),
   ForecastBody(SomeCurrent, SomeHourly,
                [SomeDaily EXCEPT !.temperature_2m_min = Undef], Undef),
   ForecastBody(SomeCurrent, SomeHourly,
                [SomeDaily EXCEPT !.temperature_2m_max = Undef], Undef),
   ForecastBody(SomeCurrent, SomeHourly,
                [SomeDaily EXCEPT !.time = Undef], Undef),
   ForecastBody(SomeCurrent, SomeHourly,
                [SomeDaily EXCEPT !.weather_code = Undef], Undef),
   ForecastBody(SomeCurrent, SomeHourly,
                [SomeDaily EXCEPT !.uv_index_max = Undef], Undef)}

ForecastReplies ==
  {Reply("throw", NoData), Reply("notok", NoData), Reply("badjson", NoData)}
    \cup {Reply("json", d) : d \in FullBodies \cup BrokenBodies}

(* ---------------------------------------------------------------------- *)
(* Geocode resolver                                                        *)
(* ---------------------------------------------------------------------- *)

\* variant: a part is put in front of the ones already collected
PushIf_Front(parts, x) == IF Truthy(x) THEN <<x>> \o parts ELSE parts

\* if (x) parts.push(x)
PushIf(parts, x) == IF Truthy(x) THEN Append(parts, x) ELSE parts

RECURSIVE Join(_, _)
\* parts.join(sep)
Join(parts, sep) ==
  IF parts = <<>> THEN ""
  ELSE IF Len(parts) = 1 THEN parts[1].s
  ELSE parts[1].s \o sep \o Join(Tail(parts), sep)

\* variant: the display name is the joined parts, without the fallback to
\* the input text
getCoordinatesFromCity_NoFallback(cityName, reply) ==
  IF reply.kind \in {"throw", "notok", "badjson"} THEN Null
  ELSE LET geocodeData == reply.data IN
    IF IsNullish(geocodeData) THEN Null
    ELSE IF Truthy(geocodeData.results) /\ Len(geocodeData.results.a) > 0
    THEN LET result == At(geocodeData.results, 0) IN
      IF IsNullish(result) THEN Null
      ELSE LET parts ==
                 PushIf(PushIf(PushIf(<<>>, result.name), result.admin1),
                        result.country)
           IN [t |-> "object", lat |-> result.latitude,
               lon |-> result.longitude,
               location |-> Str(Join(parts, ", "))]
    ELSE Null

\* variant: an answer without matches resolves to default coordinates
getCoordinatesFromCity_DefaultCoords(cityName, reply) ==
  IF reply.kind \in {"throw", "notok", "badjson"} THEN Null
  ELSE LET geocodeData == reply.data IN
    IF IsNullish(geocodeData) THEN Null
    ELSE IF Truthy(geocodeData.results) /\ Len(geocodeData.results.a) > 0
    THEN LET result == At(geocodeData.results, 0) IN
      IF IsNullish(result) THEN Null
      ELSE LET parts ==
                 PushIf(PushIf(PushIf(<<>>, result.name), result.admin1),
                        result.country)
           IN [t |-> "object", lat |-> result.latitude,
               lon |-> result.longitude,
               location |-> OrElse(Str(Join(parts, ", ")), cityName)]
    ELSE [t |-> "object", lat |-> Whole(0), lon |-> Whole(0),
          location |-> cityName]

\* the value getCoordinatesFromCity resolves to, given what the geocoding
\* service answered; every exception inside its try block ends in null
getCoordinatesFromCity(cityName, reply) ==
  IF reply.kind \in {"throw", "notok", "badjson"} THEN Null
  ELSE LET geocodeData == reply.data IN
    IF IsNullish(geocodeData) THEN Null
    ELSE IF Truthy(geocodeData.results) /\ Len(geocodeData.results.a) > 0
    THEN LET result == At(geocodeData.results, 0) IN
      IF IsNullish(result) THEN Null
      ELSE LET parts ==
                 PushIf(PushIf(PushIf(<<>>, result.name), result.admin1),
                        result.country)
           IN [t |-> "object", lat |-> result.latitude,
               lon |-> result.longitude,
               location |-> OrElse(Str(Join(parts, ", ")), cityName)]
    ELSE Null

(* ---------------------------------------------------------------------- *)
(* Forecast normaliser (the body of GET after the forecast reply)          *)
(* ---------------------------------------------------------------------- *)

Weather(time, temperature, tmin, tmax, condition, uv) ==
  [time |-> Json(time), temperature |-> Json(temperature),
   temperature_min |-> Json(tmin), temperature_max |-> Json(tmax),
   condition |-> Json(condition), uv_index |-> Json(uv)]

\* a section or array that is read through while undefined or null: the
\* property access throws a TypeError, which GET's catch turns into a 500
ReadThroughNullish(weatherData) ==
  \/ IsNullish(weatherData)
  \/ IsNullish(weatherData.current)
  \/ IsNullish(weatherData.daily)
  \/ IsNullish(weatherData.daily.temperature_2m_min)
  \/ IsNullish(weatherData.daily.temperature_2m_max)
  \/ IsNullish(weatherData.hourly)
  \/ IsNullish(weatherData.hourly.temperature_2m)
  \/ IsNullish(weatherData.hourly.time)
  \/ IsNullish(weatherData.hourly.weather_code)
  \/ IsNullish(weatherData.daily.time)
  \/ IsNullish(weatherData.daily.weather_code)
  \/ IsNullish(weatherData.daily.uv_index_max)

\* variant: the current bounds are taken from the current reading
CurrentEntry_BoundsFromReading(weatherData) ==
  Weather(weatherData.current.time,
          RoundTenth(weatherData.current.temperature_2m),
          RoundTenth(weatherData.current.temperature_2m),
          RoundTenth(weatherData.current.temperature_2m),
          getWeatherCondition(weatherData.current.weather_code),
          OrElse(MathRound(weatherData.current.uv_index), Whole(0)))

\* variant: the UV reading is rounded without the '|| 0' default
CurrentEntry_NoUvDefault(weatherData) ==
  Weather(weatherData.current.time,
          RoundTenth(weatherData.current.temperature_2m),
          RoundTenth(At(weatherData.daily.temperature_2m_min, 0)),
          RoundTenth(At(weatherData.daily.temperature_2m_max, 0)),
          getWeatherCondition(weatherData.current.weather_code),
          MathRound(weatherData.current.uv_index))

CurrentEntry(weatherData) ==
  Weather(weatherData.current.time,
          RoundTenth(weatherData.current.temperature_2m),
          RoundTenth(At(weatherData.daily.temperature_2m_min, 0)),
          RoundTenth(At(weatherData.daily.temperature_2m_max, 0)),
          getWeatherCondition(weatherData.current.weather_code),
          OrElse(MathRound(weatherData.current.uv_index), Whole(0)))

\* variant: the hourly bounds are the unrounded reading
HourlyEntry_RawBounds(weatherData, i) ==
  LET temp == At(weatherData.hourly.temperature_2m, i) IN
  Weather(At(weatherData.hourly.time, i),
          RoundTenth(temp), temp, temp,
          getWeatherCondition(At(weatherData.hourly.weather_code, i)),
          Whole(0))

HourlyEntry(weatherData, i) ==
  LET temp == At(weatherData.hourly.temperature_2m, i) IN
  Weather(At(weatherData.hourly.time, i),
          RoundTenth(temp), RoundTenth(temp), RoundTenth(temp),
          getWeatherCondition(At(weatherData.hourly.weather_code, i)),
          Whole(0))

\* variant: the daily temperature is the mean of the rounded bounds
DailyEntry_MeanOfRounded(weatherData, i) ==
  LET tempMin == At(weatherData.daily.temperature_2m_min, i)
      tempMax == At(weatherData.daily.temperature_2m_max, i)
      avgTemp == DividedBy(Plus(RoundTenth(tempMin), RoundTenth(tempMax)), 2)
  IN Weather(At(weatherData.daily.time, i),
             RoundTenth(avgTemp), RoundTenth(tempMin), RoundTenth(tempMax),
             getWeatherCondition(At(weatherData.daily.weather_code, i)),
             OrElse(MathRound(At(weatherData.daily.uv_index_max, i)), Whole(0)))

\* variant: the division binds to the maximum only (tempMin + tempMax / 2)
DailyEntry_HalfOfMax(weatherData, i) ==
  LET tempMin == At(weatherData.daily.temperature_2m_min, i)
      tempMax == At(weatherData.daily.temperature_2m_max, i)
      avgTemp == Plus(tempMin, DividedBy(tempMax, 2))
  IN Weather(At(weatherData.daily.time, i),
             RoundTenth(avgTemp), RoundTenth(tempMin), RoundTenth(tempMax),
             getWeatherCondition(At(weatherData.daily.weather_code, i)),
             OrElse(MathRound(At(weatherData.daily.uv_index_max, i)), Whole(0)))

DailyEntry(weatherData, i) ==
  LET tempMin == At(weatherData.daily.temperature_2m_min, i)
      tempMax == At(weatherData.daily.temperature_2m_max, i)
      avgTemp == DividedBy(Plus(tempMin, tempMax), 2)
  IN Weather(At(weatherData.daily.time, i),
             RoundTenth(avgTemp), RoundTenth(tempMin), RoundTenth(tempMax),
             getWeatherCondition(At(weatherData.daily.weather_code, i)),
             OrElse(MathRound(At(weatherData.daily.uv_index_max, i)), Whole(0)))

\* variant: the timezone is copied without the 'UTC' default
WeatherResponse_NoDefaultTimezone(location, weatherData) ==
  [kind |-> "weather",
   location |-> Json(location),
   timezone |-> Json(weatherData.timezone),
   current |-> CurrentEntry(weatherData),
   hourly |-> [i \in 1..HourlyCount |-> HourlyEntry(weatherData, i - 1)],
   daily |-> [i \in 1..DailyCount |-> DailyEntry(weatherData, i - 1)]]

\* variant: the loops run over the whole provider series
WeatherResponse_WholeSeries(location, weatherData) ==
  [kind |-> "weather",
   location |-> Json(location),
   timezone |-> Json(OrElse(weatherData.timezone, Str("UTC"))),
   current |-> CurrentEntry(weatherData),
   hourly |-> [i \in DOMAIN weatherData.hourly.temperature_2m.a |->
                 HourlyEntry(weatherData, i - 1)],
   daily |-> [i \in DOMAIN weatherData.daily.temperature_2m_min.a |->
                DailyEntry(weatherData, i - 1)]]

\* variant: the loops take the last points of each series, not the first
WeatherResponse_LastPoints(location, weatherData) ==
  LET hskip == Len(weatherData.hourly.time.a) - HourlyCount
      dskip == Len(weatherData.daily.time.a) - DailyCount
  IN [kind |-> "weather",
      location |-> Json(location),
      timezone |-> Json(OrElse(weatherData.timezone, Str("UTC"))),
      current |-> CurrentEntry(weatherData),
      hourly |-> [i \in 1..HourlyCount |->
                    HourlyEntry(weatherData, i - 1 + (IF hskip > 0 THEN hskip ELSE 0))],
      daily |-> [i \in 1..DailyCount |->
                   DailyEntry(weatherData, i - 1 + (IF dskip > 0 THEN dskip ELSE 0))]]

WeatherResponse(location, weatherData) ==
  [kind |-> "weather",
   location |-> Json(location),
   timezone |-> Json(OrElse(weatherData.timezone, Str("UTC"))),
   current |-> CurrentEntry(weatherData),
   hourly |-> [i \in 1..HourlyCount |-> HourlyEntry(weatherData, i - 1)],
   daily |-> [i \in 1..DailyCount |-> DailyEntry(weatherData, i - 1)]]

ErrorBody(message) == [kind |-> "error", error |-> message]
NoBody == [kind |-> "none"]

(* ---------------------------------------------------------------------- *)
(* The request handler as a state machine                                  *)
(* ---------------------------------------------------------------------- *)

VARIABLES
  pc,             \* where the handler is: idle, geocode, forecast, done
  locationParam,  \* the request's location parameter
  calls,          \* the outbound calls issued for the request, in order
  geocodeReply,   \* what the geocoding service answered
  geocodeResult,  \* what getCoordinatesFromCity resolved to
  forecastReply,  \* what the forecast service answered
  status,         \* HTTP status of the response (0: none yet)
  body,           \* JSON body of the response
  fn,             \* the pure function applied last ("none": not yet)
  input,          \* its argument
  output,         \* its result
  requests,       \* the handler's state for each of several requests at once
  searchParams,   \* the page URL's location parameter
  fetches,        \* the fetches the page has started, in order
  settled,        \* the fetches that have settled, in order of settling
  loading,        \* the page's loading state
  error,          \* the page's error state
  data            \* the page's data state

handler ==
  <<pc, locationParam, calls, geocodeReply, geocodeResult, forecastReply,
    status, body>>
pure == <<fn, input, output>>
page == <<searchParams, fetches, settled, loading, error, data>>
vars == <<handler, pure, requests, page>>

NoReply == Reply("none", NoData)

GeocodeCall(cityName) == [svc |-> "geocode", name |-> cityName]
\* variant: the coordinates are put into the URL the wrong way round
ForecastCall_Swapped(latitude, longitude) ==
  [svc |-> "forecast", latitude |-> longitude, longitude |-> latitude]

ForecastCall(latitude, longitude) ==
  [svc |-> "forecast", latitude |-> latitude, longitude |-> longitude]

\* the number of requests the endpoint is followed on at once
MaxRequests == 2

Requests == 1..MaxRequests

\* a request that has not arrived yet
IdleRequest ==
  [pc |-> "idle", locationParam |-> Null, calls |-> <<>>,
   geocodeReply |-> NoReply, geocodeResult |-> Null,
   forecastReply |-> NoReply, status |-> 0, body |-> NoBody]

RequestsInit == requests = [r \in Requests |-> IdleRequest]

\* the page's useState defaults, before its effect has run
PageMounted ==
  /\ fetches = <<>>
  /\ settled = <<>>
  /\ loading = TRUE
  /\ error = Null
  /\ data = Null

Init ==
  /\ pc = "idle"
  /\ locationParam = Null
  /\ calls = <<>>
  /\ geocodeReply = NoReply
  /\ geocodeResult = Null
  /\ forecastReply = NoReply
  /\ status = 0
  /\ body = NoBody
  /\ fn = "none"
  /\ input = Undef
  /\ output = Undef
  /\ RequestsInit
  /\ searchParams = Null
  /\ PageMounted

Respond(code, json) ==
  /\ pc' = "done"
  /\ status' = code
  /\ body' = json

\* variant: the parameter is not validated
GET_Unvalidated(location) ==
  /\ pc = "idle"
  /\ locationParam' = location
  /\ UNCHANGED <<geocodeReply, geocodeResult, forecastReply, pure, requests, page>>
  /\ calls' = Append(calls, GeocodeCall(location))
  /\ pc' = "geocode"
  /\ UNCHANGED <<status, body>>

\* GET up to its first await: validate the parameter, issue the geocode call
GET(location) ==
  /\ pc = "idle"
  /\ locationParam' = location
  /\ UNCHANGED <<geocodeReply, geocodeResult, forecastReply, pure, requests, page>>
  /\ IF ~Truthy(location)
     THEN /\ Respond(400, ErrorBody("Missing required parameter: location"))
          /\ UNCHANGED calls
     ELSE /\ calls' = Append(calls, GeocodeCall(location))
          /\ pc' = "geocode"
          /\ UNCHANGED <<status, body>>

\* variant: a geocode call that failed in transport is issued a second time
GeocodeSettled_RetryOnce(reply) ==
  /\ pc = "geocode"
  /\ geocodeReply' = reply
  /\ LET result == getCoordinatesFromCity(locationParam, reply) IN
     /\ geocodeResult' = result
     /\ IF reply.kind = "throw" /\ Len(calls) = 1
        THEN /\ calls' = Append(calls, GeocodeCall(locationParam))
             /\ UNCHANGED <<pc, status, body>>
        ELSE IF ~Truthy(result)
        THEN /\ Respond(404, ErrorBody("Location not found: " \o locationParam.s))
             /\ UNCHANGED calls
        ELSE /\ calls' = Append(calls, ForecastCall(result.lat, result.lon))
             /\ pc' = "forecast"
             /\ UNCHANGED <<status, body>>
  /\ UNCHANGED <<locationParam, forecastReply, pure, requests, page>>

\* variant: a transport failure of the geocode call escapes the resolver
\* and reaches GET's catch
GeocodeSettled_Uncaught(reply) ==
  /\ pc = "geocode"
  /\ geocodeReply' = reply
  /\ LET result == getCoordinatesFromCity(locationParam, reply) IN
     /\ geocodeResult' = result
     /\ IF reply.kind = "throw"
        THEN /\ Respond(500, ErrorBody("Failed to fetch weather data"))
             /\ UNCHANGED calls
        ELSE IF ~Truthy(result)
        THEN /\ Respond(404, ErrorBody("Location not found: " \o locationParam.s))
             /\ UNCHANGED calls
        ELSE /\ calls' = Append(calls, ForecastCall(result.lat, result.lon))
             /\ pc' = "forecast"
             /\ UNCHANGED <<status, body>>
  /\ UNCHANGED <<locationParam, forecastReply, pure, requests, page>>

\* the geocode call settles: 404 on null, otherwise issue the forecast call
GeocodeSettled(reply) ==
  /\ pc = "geocode"
  /\ geocodeReply' = reply
  /\ LET result == getCoordinatesFromCity(locationParam, reply) IN
     /\ geocodeResult' = result
     /\ IF ~Truthy(result)
        THEN /\ Respond(404, ErrorBody("Location not found: " \o locationParam.s))
             /\ UNCHANGED calls
        ELSE /\ calls' = Append(calls, ForecastCall(result.lat, result.lon))
             /\ pc' = "forecast"
             /\ UNCHANGED <<status, body>>
  /\ UNCHANGED <<locationParam, forecastReply, pure, requests, page>>

\* variant: the catch block answers without an error status
ForecastSettled_CatchOk(reply) ==
  /\ pc = "forecast"
  /\ forecastReply' = reply
  /\ IF reply.kind \in {"throw", "notok", "badjson"}
        \/ ReadThroughNullish(reply.data)
     THEN Respond(200, ErrorBody("Failed to fetch weather data"))
     ELSE Respond(200, WeatherResponse(geocodeResult.location, reply.data))
  /\ UNCHANGED <<locationParam, calls, geocodeReply, geocodeResult, pure, requests, page>>

\* variant: a series shorter than the loop's count raises an error
ForecastSettled_ShortSeriesThrows(reply) ==
  /\ pc = "forecast"
  /\ forecastReply' = reply
  /\ IF reply.kind \in {"throw", "notok", "badjson"}
        \/ ReadThroughNullish(reply.data)
        \/ Len(reply.data.hourly.temperature_2m.a) < HourlyCount
        \/ Len(reply.data.daily.temperature_2m_min.a) < DailyCount
     THEN Respond(500, ErrorBody("Failed to fetch weather data"))
     ELSE Respond(200, WeatherResponse(geocodeResult.location, reply.data))
  /\ UNCHANGED <<locationParam, calls, geocodeReply, geocodeResult, pure, requests, page>>

\* the forecast call settles: build the response, or 500 on any exception
ForecastSettled(reply) ==
  /\ pc = "forecast"
  /\ forecastReply' = reply
  /\ IF reply.kind \in {"throw", "notok", "badjson"}
        \/ ReadThroughNullish(reply.data)
     THEN Respond(500, ErrorBody("Failed to fetch weather data"))
     ELSE Respond(200, WeatherResponse(geocodeResult.location, reply.data))
  /\ UNCHANGED <<locationParam, calls, geocodeReply, geocodeResult, pure, requests, page>>

\* the response has been sent; the next request starts from scratch
NextRequest ==
  /\ pc = "done"
  /\ pc' = "idle"
  /\ locationParam' = Null
  /\ calls' = <<>>
  /\ geocodeReply' = NoReply
  /\ geocodeResult' = Null
  /\ forecastReply' = NoReply
  /\ status' = 0
  /\ body' = NoBody
  /\ UNCHANGED <<pure, requests, page>>

Next ==
  \/ \E location \in Locations : GET(location)
  \/ \E reply \in GeocodeReplies : GeocodeSettled(reply)
  \/ \E reply \in ForecastReplies : ForecastSettled(reply)
  \/ NextRequest

Spec == Init /\ [][Next]_vars

\* every outbound call that was issued eventually returns or fails
LiveSpec ==
  /\ Spec
  /\ WF_vars(\E reply \in GeocodeReplies : GeocodeSettled(reply))
  /\ WF_vars(\E reply \in ForecastReplies : ForecastSettled(reply))

(* ---------------------------------------------------------------------- *)
(* Several requests served at once: each invocation of GET has its own     *)
(* locals, and its steps interleave with the other invocations' at the     *)
(* awaits                                                                  *)
(* ---------------------------------------------------------------------- *)

ConcLocations == Locations \cup {Str("Lyon")}

ConcGeocodeReplies ==
  {Reply("throw", NoData),
   Reply("json", GeocodeBody(Arr(<<>>))),
   Reply("json", GeocodeBody(Arr(<<
     Match(Str("Paris"), Str("Ile-de-France"), Str("France"),
           Reading(4885), Reading(235))>>))),
   Reply("json", GeocodeBody(Arr(<<
     Match(Undef, Str(""), Undef, Reading(-3387), Reading(15121))>>)))}

ConcForecastReplies ==
  {Reply("notok", NoData),
   Reply("json", ForecastBody(SomeCurrent, SomeHourly, SomeDaily, Undef)),
   Reply("json", ForecastBody(
     CurrentSection(IsoTime(10), Reading(-125), Undef, Undef),
     SomeHourly, SomeDaily, Str("Europe/Paris")))}

\* variant: a location that another invocation has resolved is not
\* geocoded again
ConcGET_Cached(r, location) ==
  /\ requests[r].pc = "idle"
  /\ IF ~Truthy(location)
     THEN requests' = [requests EXCEPT ![r] =
            [@ EXCEPT !.locationParam = location, !.pc = "done", !.status = 400,
               !.body = ErrorBody("Missing required parameter: location")]]
     ELSE IF \E q \in Requests : /\ requests[q].locationParam = location
                                 /\ Truthy(requests[q].geocodeResult)
     THEN LET q == CHOOSE q \in Requests :
                     /\ requests[q].locationParam = location
                     /\ Truthy(requests[q].geocodeResult)
              result == requests[q].geocodeResult
          IN requests' = [requests EXCEPT ![r] =
               [@ EXCEPT !.locationParam = location, !.pc = "forecast",
                  !.geocodeResult = result,
                  !.calls = Append(@, ForecastCall(result.lat, result.lon))]]
     ELSE requests' = [requests EXCEPT ![r] =
            [@ EXCEPT !.locationParam = location, !.pc = "geocode",
               !.calls = Append(@, GeocodeCall(location))]]
  /\ UNCHANGED <<handler, pure, page>>

\* GET up to its first await, for request r
ConcGET(r, location) ==
  /\ requests[r].pc = "idle"
  /\ IF ~Truthy(location)
     THEN requests' = [requests EXCEPT ![r] =
            [@ EXCEPT !.locationParam = location, !.pc = "done", !.status = 400,
               !.body = ErrorBody("Missing required parameter: location")]]
     ELSE requests' = [requests EXCEPT ![r] =
            [@ EXCEPT !.locationParam = location, !.pc = "geocode",
               !.calls = Append(@, GeocodeCall(location))]]
  /\ UNCHANGED <<handler, pure, page>>

\* request r's geocode call settles
ConcGeocodeSettled(r, reply) ==
  /\ requests[r].pc = "geocode"
  /\ LET result == getCoordinatesFromCity(requests[r].locationParam, reply) IN
     IF ~Truthy(result)
     THEN requests' = [requests EXCEPT ![r] =
            [@ EXCEPT !.geocodeReply = reply, !.geocodeResult = result,
               !.pc = "done", !.status = 404,
               !.body = ErrorBody("Location not found: "
                                    \o requests[r].locationParam.s)]]
     ELSE requests' = [requests EXCEPT ![r] =
            [@ EXCEPT !.geocodeReply = reply, !.geocodeResult = result,
               !.pc = "forecast",
               !.calls = Append(@, ForecastCall(result.lat, result.lon))]]
  /\ UNCHANGED <<handler, pure, page>>

\* request r's forecast call settles
ConcForecastSettled(r, reply) ==
  /\ requests[r].pc = "forecast"
  /\ IF reply.kind \in {"throw", "notok", "badjson"}
        \/ ReadThroughNullish(reply.data)
     THEN requests' = [requests EXCEPT ![r] =
            [@ EXCEPT !.forecastReply = reply, !.pc = "done", !.status = 500,
               !.body = ErrorBody("Failed to fetch weather data")]]
     ELSE requests' = [requests EXCEPT ![r] =
            [@ EXCEPT !.forecastReply = reply, !.pc = "done", !.status = 200,
               !.body = WeatherResponse(requests[r].geocodeResult.location,
                                        reply.data)]]
  /\ UNCHANGED <<handler, pure, page>>

ConcNext ==
  \/ \E r \in Requests, location \in ConcLocations : ConcGET(r, location)
  \/ \E r \in Requests, reply \in ConcGeocodeReplies : ConcGeocodeSettled(r, reply)
  \/ \E r \in Requests, reply \in ConcForecastReplies : ConcForecastSettled(r, reply)

ConcSpec == Init /\ [][ConcNext]_vars

(* ---------------------------------------------------------------------- *)
(* The page's request (src/app/weather/page.tsx) and the endpoint's        *)
(* reading of it                                                           *)
(* ---------------------------------------------------------------------- *)

DEFAULT_CITY ==
  Text(<<"S", "a", "n", " ", "F", "r", "a", "n", "c", "i", "s", "c", "o">>)

\* the characters encodeURIComponent leaves as they are (those that occur)
Unreserved ==
  {"a", "c", "i", "n", "o", "r", "s", "F", "S", "7", "-", "_", "."}

\* the UTF-8 bytes of a character that is escaped, as %XX each
PercentEscape(c) ==
  CASE c = " " -> <<"%", "2", "0">>
    [] c = "#" -> <<"%", "2", "3">>
    [] c = "%" -> <<"%", "2", "5">>
    [] c = "&" -> <<"%", "2", "6">>
    [] c = "+" -> <<"%", "2", "B">>
    [] c = "=" -> <<"%", "3", "D">>
    [] c = "é" -> <<"%", "C", "3", "%", "A", "9">>

RECURSIVE EncodeChars(_)
EncodeChars(chars) ==
  IF chars = <<>> THEN <<>>
  ELSE (IF Head(chars) \in Unreserved THEN <<Head(chars)>>
        ELSE PercentEscape(Head(chars))) \o EncodeChars(Tail(chars))

encodeURIComponent(text) == Text(EncodeChars(text.chars))

\* variant: the location is sent without the DEFAULT_CITY fallback
fetchWeatherUrl_NoDefault(param) ==
  [path |-> "/api/weather",
   location |-> IF param = Null THEN Text(<<"n", "u", "l", "l">>)
                ELSE encodeURIComponent(param)]

\* variant: the location is put into the URL as it is
fetchWeatherUrl_Unencoded(param) ==
  [path |-> "/api/weather", location |-> OrElse(param, DEFAULT_CITY)]

\* the URL fetchWeather requests, given searchParams.get('location')
fetchWeatherUrl(param) ==
  [path |-> "/api/weather",
   location |-> encodeURIComponent(OrElse(param, DEFAULT_CITY))]

\* the character a %XX... escape at the head of chars stands for, with the
\* number of characters it takes (0: no well-formed escape there)
EscapeAt(chars) ==
  LET Starts(e) == Len(chars) >= Len(e) /\ SubSeq(chars, 1, Len(e)) = e
      known == {c \in {" ", "#", "%", "&", "+", "=", "é"} : Starts(PercentEscape(c))}
  IN IF known = {} THEN [len |-> 0, char |-> ""]
     ELSE LET c == CHOOSE k \in known : TRUE
          IN [len |-> Len(PercentEscape(c)), char |-> c]

RECURSIVE QueryDecode(_)
\* searchParams.get('location') on the endpoint's side: the value ends at
\* '&' or '#', '+' is a space, a %XX escape is the character it stands for
QueryDecode(chars) ==
  IF chars = <<>> \/ Head(chars) \in {"&", "#"} THEN <<>>
  ELSE IF Head(chars) = "+" THEN <<" ">> \o QueryDecode(Tail(chars))
  ELSE LET esc == EscapeAt(chars) IN
    IF esc.len > 0
    THEN <<esc.char>> \o QueryDecode(SubSeq(chars, esc.len + 1, Len(chars)))
    ELSE <<Head(chars)>> \o QueryDecode(Tail(chars))

(* ---------------------------------------------------------------------- *)
(* The page's fetch effect as a state machine: the effect starts a fetch   *)
(* at mount and whenever the URL's location changes; fetches settle in any *)
(* order                                                                   *)
(* ---------------------------------------------------------------------- *)

\* the number of fetches the page is followed through
MaxFetches == 2

\* the location parameter of the page URL: absent, empty, or a city
PageLocations == {Null, Text(<<>>), Text(<<"a">>), Text(<<"a", "&", "é">>)}

\* the statuses the endpoint answers a request for this location with
EndpointStatuses(location) ==
  IF ~Truthy(location) THEN {400} ELSE {200, 404, 500}

\* the location the endpoint reads from a requested URL
LocationRead(url) == Text(QueryDecode(url.location.chars))

\* what a fetch can settle with: a rejection (network failure), or the
\* endpoint's response with one of its statuses, the 200 one carrying the
\* forecast for the location asked for
FetchReplies(url) ==
  {[kind |-> "threw", status |-> 0, body |-> Undef]} \cup
  {[kind |-> "response", status |-> st,
    body |-> IF st = 200
             THEN [t |-> "object", kind |-> "weather", request |-> LocationRead(url)]
             ELSE [t |-> "object", kind |-> "error", request |-> LocationRead(url)]] :
     st \in EndpointStatuses(LocationRead(url))}

InFlight == [kind |-> "none", status |-> 0, body |-> Undef]

\* fetchWeather up to its first await
StartFetch(param) ==
  /\ loading' = TRUE
  /\ error' = Null
  /\ fetches' = Append(fetches, [param |-> param, url |-> fetchWeatherUrl(param),
                                 reply |-> InFlight])
  /\ UNCHANGED <<data, settled>>

\* the effect's first run, after the component has mounted
Mount ==
  /\ fetches = <<>>
  /\ StartFetch(searchParams)
  /\ UNCHANGED <<searchParams, handler, pure, requests>>

\* the URL's location changes and the effect runs again
Navigate(param) ==
  /\ fetches /= <<>>
  /\ Len(fetches) < MaxFetches
  /\ param /= searchParams
  /\ searchParams' = param
  /\ StartFetch(param)
  /\ UNCHANGED <<handler, pure, requests>>

\* variant: the response is stored without looking at response.ok
FetchSettled_NoOkCheck(i, reply) ==
  /\ i \in DOMAIN fetches
  /\ fetches[i].reply = InFlight
  /\ reply \in FetchReplies(fetches[i].url)
  /\ IF reply.kind = "threw"
     THEN /\ error' = Str("Failed to fetch")
          /\ UNCHANGED data
     ELSE /\ data' = reply.body
          /\ UNCHANGED error
  /\ loading' = FALSE
  /\ fetches' = [fetches EXCEPT ![i].reply = reply]
  /\ settled' = Append(settled, i)
  /\ UNCHANGED <<searchParams, handler, pure, requests>>

\* fetchWeather after its awaits: the i-th fetch settles
FetchSettled(i, reply) ==
  /\ i \in DOMAIN fetches
  /\ fetches[i].reply = InFlight
  /\ reply \in FetchReplies(fetches[i].url)
  /\ IF reply.kind = "threw"
     THEN /\ error' = Str("Failed to fetch")
          /\ UNCHANGED data
     ELSE IF reply.status /= 200
     THEN /\ error' = Str("Failed to fetch weather data")
          /\ UNCHANGED data
     ELSE /\ data' = reply.body
          /\ UNCHANGED error
  /\ loading' = FALSE
  /\ fetches' = [fetches EXCEPT ![i].reply = reply]
  /\ settled' = Append(settled, i)
  /\ UNCHANGED <<searchParams, handler, pure, requests>>

\* the view the component renders
View ==
  IF loading THEN "loading"
  ELSE IF Truthy(error) \/ ~Truthy(data) THEN "error"
  ELSE "forecast"

PageInit ==
  /\ pc = "idle"
  /\ locationParam = Null
  /\ calls = <<>>
  /\ geocodeReply = NoReply
  /\ geocodeResult = Null
  /\ forecastReply = NoReply
  /\ status = 0
  /\ body = NoBody
  /\ fn = "none"
  /\ input = Undef
  /\ output = Undef
  /\ RequestsInit
  /\ searchParams \in PageLocations
  /\ PageMounted

AllReplies == UNION {FetchReplies(fetchWeatherUrl(p)) : p \in PageLocations}

PageNext ==
  \/ Mount
  \/ \E param \in PageLocations : Navigate(param)
  \/ \E i \in 1..MaxFetches, reply \in AllReplies : FetchSettled(i, reply)

PageSpec == PageInit /\ [][PageNext]_vars

(* ---------------------------------------------------------------------- *)
(* The random mock endpoint (second route of route.ts). Math.random is a   *)
(* stream of draws from [0, 1); rnd is the stream, k the position of the   *)
(* next draw                                                               *)
(* ---------------------------------------------------------------------- *)

WEATHER_CONDITIONS ==
  Arr(<<Str("Sunny"), Str("Cloudy"), Str("Rain"), Str("Snow"),
        Str("Partly Cloudy"), Str("Thunderstorm")>>)

\* Math.random() * (max - min) + min
randomInRange(r, min, max) == Plus(Times(r, max - min), Whole(min))

\* variant: the integer is taken by rounding instead of Math.floor
randomIntInRange_Rounded(r, min, max) == MathRound(randomInRange(r, min, max + 1))

randomIntInRange(r, min, max) == MathFloor(randomInRange(r, min, max + 1))

randomCondition(r) ==
  At(WEATHER_CONDITIONS,
     randomIntInRange(r, 0, Len(WEATHER_CONDITIONS.a) - 1).v \div Unit)

generateWeather(time, rnd, k) ==
  LET baseTemp == randomInRange(rnd[k], -10, 40)
      tempVariation == randomInRange(rnd[k + 1], 3, 10)
  IN Weather(time,
             RoundTenth(baseTemp),
             RoundTenth(Minus(baseTemp, DividedBy(tempVariation, 2))),
             RoundTenth(Plus(baseTemp, DividedBy(tempVariation, 2))),
             randomCondition(rnd[k + 2]),
             randomIntInRange(rnd[k + 3], 0, 11))

\* the draws one entry takes
DrawsPerEntry == 4

generateCurrentWeather(now, rnd, k) == generateWeather(IsoTime(now), rnd, k)

generateHourlyWeather(now, rnd, k) ==
  [i \in 1..HourlyCount |->
     generateWeather(IsoTime(now + (i - 1)), rnd, k + DrawsPerEntry * (i - 1))]

generateDailyWeather(now, rnd, k) ==
  [i \in 1..DailyCount |->
     generateWeather(IsoTime((now - (now % 24)) + 24 * (i - 1)), rnd,
                     k + DrawsPerEntry * (i - 1))]

\* GET of the mock endpoint, at hour now, with the stream rnd
MockGET(location, now, rnd) ==
  [kind |-> "weather",
   location |-> Json(OrElse(location, Str("San Francisco"))),
   current |-> generateCurrentWeather(now, rnd, 1),
   hourly |-> generateHourlyWeather(now, rnd, 1 + DrawsPerEntry),
   daily |-> generateDailyWeather(now, rnd,
                                  1 + DrawsPerEntry + DrawsPerEntry * HourlyCount)]

(* ---------------------------------------------------------------------- *)
(* The pure functions on their own: an argument is drawn, the function is  *)
(* applied to it                                                           *)
(* ---------------------------------------------------------------------- *)

\* the weather codes the mapper is tried on: -MaxNegative..MaxCode
MaxNegative == 3
MaxCode == 102

CodeInputs == {Whole(c) : c \in (0 - MaxNegative)..MaxCode}

\* the readings the rounding is tried on: -MaxReading..MaxReading hundredths
MaxReading == 130

ReadingInputs == {Reading(h) : h \in (0 - MaxReading)..MaxReading}

\* a match with each name part missing, empty or supplied, for two inputs
NameParts(x) == {Undef, Str(""), Str(x)}

ResolverInputs ==
  {[cityName |-> Str(city),
    reply |-> Reply("json", GeocodeBody(Arr(<<
                Match(n, a, c, Reading(4885), Reading(235))>>)))] :
     city \in {"Paris", "paris, tx"},
     n \in NameParts("Paris"), a \in NameParts("Ile-de-France"),
     c \in NameParts("France")}

\* the page URL's location parameter: absent, or up to MaxTextLen characters
MaxTextLen == 3

Alphabet == {"a", "-", " ", "&", "+", "%", "é"}

RECURSIVE TextsOfLength(_)
TextsOfLength(n) ==
  IF n = 0 THEN {<<>>}
  ELSE {Append(cs, c) : cs \in TextsOfLength(n - 1), c \in Alphabet}

PageInputs ==
  {Null} \cup {Text(cs) : cs \in UNION {TextsOfLength(n) : n \in 0..MaxTextLen}}

\* a draw of j eighths: the values of the model's numbers that Math.random,
\* which yields binary fractions, can yield exactly
Eighth(j) == Num(j * (Unit \div 8))

\* generateWeather's four draws: each eighth for baseTemp, each even eighth
\* for tempVariation (which keeps tempVariation / 2 exact), and each
\* hundredth for the condition draw, the uv draw running the other way
EntryInputs ==
  {[draws |-> <<Eighth(b), Eighth(2 * v), Reading(c), Reading(99 - c)>>] :
     b \in 0..7, v \in 0..3, c \in 0..99}

\* a stream of draws for the entries e = 0, 1, 2, ...: the baseTemp and
\* tempVariation draws step through the eighths, the condition and uv
\* draws through the hundredths
Stream(a, b) ==
  [n \in 1..(DrawsPerEntry * (1 + HourlyCount + DailyCount)) |->
     LET e == (n - 1) \div DrawsPerEntry
         role == (n - 1) % DrawsPerEntry
     IN CASE role = 0 -> Eighth((a + b * e) % 8)
          [] role = 1 -> Eighth(2 * ((a + e) % 4))
          [] OTHER -> Reading((a + b * n) % 100)]

MockInputs ==
  {[location |-> l, now |-> 34, stream |-> Stream(ab[1], ab[2])] :
     l \in Locations, ab \in {<<0, 7>>, <<99, 33>>, <<50, 0>>}}

PureInit ==
  /\ pc = "idle"
  /\ locationParam = Null
  /\ calls = <<>>
  /\ geocodeReply = NoReply
  /\ geocodeResult = Null
  /\ forecastReply = NoReply
  /\ status = 0
  /\ body = NoBody
  /\ fn = "none"
  /\ input \in CodeInputs \cup ReadingInputs \cup ResolverInputs \cup PageInputs
                \cup EntryInputs \cup MockInputs
  /\ output = Undef
  /\ RequestsInit
  /\ searchParams = Null
  /\ PageMounted

ApplyGetWeatherCondition ==
  /\ fn = "none"
  /\ input \in CodeInputs
  /\ fn' = "getWeatherCondition"
  /\ output' = getWeatherCondition(input)
  /\ UNCHANGED <<input, handler, requests, page>>

ApplyRoundTenth ==
  /\ fn = "none"
  /\ input \in ReadingInputs
  /\ fn' = "roundTenth"
  /\ output' = RoundTenth(input)
  /\ UNCHANGED <<input, handler, requests, page>>

ApplyGetCoordinatesFromCity ==
  /\ fn = "none"
  /\ input \in ResolverInputs
  /\ fn' = "getCoordinatesFromCity"
  /\ output' = getCoordinatesFromCity(input.cityName, input.reply)
  /\ UNCHANGED <<input, handler, requests, page>>

ApplyFetchWeatherUrl ==
  /\ fn = "none"
  /\ input \in PageInputs
  /\ fn' = "fetchWeather"
  /\ output' = fetchWeatherUrl(input)
  /\ UNCHANGED <<input, handler, requests, page>>

ApplyGenerateWeather ==
  /\ fn = "none"
  /\ input \in EntryInputs
  /\ fn' = "generateWeather"
  /\ output' = generateWeather(IsoTime(0), input.draws, 1)
  /\ UNCHANGED <<input, handler, requests, page>>

ApplyMockGET ==
  /\ fn = "none"
  /\ input \in MockInputs
  /\ fn' = "mockGET"
  /\ output' = MockGET(input.location, input.now, input.stream)
  /\ UNCHANGED <<input, handler, requests, page>>

PureNext ==
  \/ ApplyGetWeatherCondition
  \/ ApplyRoundTenth
  \/ ApplyGetCoordinatesFromCity
  \/ ApplyFetchWeatherUrl
  \/ ApplyGenerateWeather
  \/ ApplyMockGET

PureSpec == PureInit /\ [][PureNext]_vars

(* ---------------------------------------------------------------------- *)
(* Properties                                                              *)
(* ---------------------------------------------------------------------- *)

Ok == pc = "done" /\ status = 200

\* the provider payload a 200 response was built from
Payload == forecastReply.data

\* the entries of a 200 response: current, the hourly ones, the daily ones
Entries ==
  {body.current} \cup {body.hourly[i] : i \in DOMAIN body.hourly}
    \cup {body.daily[i] : i \in DOMAIN body.daily}

NoCallTo(svc) == \A i \in DOMAIN calls : calls[i].svc /= svc

\* C1: a request whose location parameter is absent or empty is answered
\* with HTTP 400 and an error body, and no outbound call is made for it.
C1_MissingLocationIs400 ==
  (pc /= "idle" /\ locationParam \in {Null, Str("")}) =>
    /\ pc = "done"
    /\ status = 400
    /\ body.kind = "error"
    /\ calls = <<>>

C1_Witness == pc = "done" /\ locationParam = Str("") /\ status = 400

\* the geocoding service answered, and its answer holds no match
ZeroMatches(reply) ==
  /\ reply.kind = "json"
  /\ ~IsNullish(reply.data)
  /\ \/ reply.data.results = Undef
     \/ reply.data.results = Arr(<<>>)

\* C2: a request with a non-empty location for which the geocoding service
\* returns zero matches is answered with HTTP 404 and an error body, and
\* the forecast service is never called for it.
C2_NoMatchIs404 ==
  (Truthy(locationParam) /\ ZeroMatches(geocodeReply)) =>
    /\ pc = "done"
    /\ status = 404
    /\ body.kind = "error"
    /\ NoCallTo("forecast")

C2_Witness ==
  /\ pc = "done"
  /\ geocodeReply = Reply("json", GeocodeBody(Arr(<<>>)))
  /\ status = 404

\* C3: any failure of the geocoding lookup (transport exception, non-OK
\* status, unparsable body) makes the resolver return null, so the request
\* is answered with HTTP 404; a 500 is only ever the outcome of a request
\* whose forecast call was issued.
C3_GeocodeFailureIs404 ==
  /\ geocodeReply.kind \in {"throw", "notok", "badjson"} =>
       /\ geocodeResult = Null
       /\ pc = "done"
       /\ status = 404
       /\ body.kind = "error"
  /\ status = 500 => ~NoCallTo("forecast")

C3_Witness ==
  /\ pc = "done"
  /\ geocodeReply.kind = "throw"
  /\ status = 404

\* the payload lacks its current, hourly or daily section
LacksSection(payload) ==
  \/ IsNullish(payload.current)
  \/ IsNullish(payload.hourly)
  \/ IsNullish(payload.daily)

ForecastFailed ==
  \/ forecastReply.kind \in {"throw", "notok"}
  \/ /\ forecastReply.kind = "json"
     /\ ~IsNullish(forecastReply.data)
     /\ LacksSection(forecastReply.data)

\* C4: after a successful geocode, if the forecast call fails (exception or
\* non-OK status) or its payload lacks the current, hourly or daily
\* section, the request is answered with HTTP 500 and a body that holds
\* an error message only; a weather body is only ever sent with status 200
\* and built from a payload that has all three sections.
C4_ForecastFailureIs500 ==
  /\ ForecastFailed =>
       /\ pc = "done"
       /\ status = 500
       /\ body.kind = "error"
       /\ DOMAIN body = {"kind", "error"}
  /\ (pc = "done" /\ status = 200) =>
       /\ body.kind = "weather"
       /\ forecastReply.kind = "json"
       /\ ~LacksSection(forecastReply.data)
  /\ body.kind = "weather" => status = 200

C4_Witness ==
  /\ pc = "done"
  /\ status = 500
  /\ forecastReply.kind = "json"
  /\ ~IsNullish(forecastReply.data)
  /\ forecastReply.data.daily = Undef
  /\ Truthy(geocodeResult)

\* C5: every HTTP 200 response has exactly 24 hourly entries and exactly 7
\* daily entries, whatever the lengths of the provider's series.
C5_FixedLengths ==
  Ok => /\ DOMAIN body.hourly = 1..24
        /\ DOMAIN body.daily = 1..7

C5_Witness ==
  /\ Ok
  /\ Len(Payload.hourly.temperature_2m.a) > 24
  /\ Len(Payload.daily.temperature_2m_min.a) < 7
  /\ Len(body.hourly) = 24
  /\ Len(body.daily) = 7

\* C6: in every HTTP 200 response, every entry of current, hourly and daily
\* satisfies temperature_min <= temperature_max (entries whose bounds are
\* not numbers in the JSON body are not held against the statement).
C6_MinAtMostMax ==
  Ok => \A e \in Entries :
          (IsNum(e.temperature_min) /\ IsNum(e.temperature_max)) =>
            e.temperature_min.v <= e.temperature_max.v

\* C7: in every HTTP 200 response, every entry of current, hourly and daily
\* has uv_index >= 0, whatever the provider's UV reading.
C7_UvNonNegative ==
  Ok => \A e \in Entries : IsNum(e.uv_index) /\ e.uv_index.v >= 0

\* C8: in every HTTP 200 response, the condition of every entry is a
\* non-empty string, also when the provider's weather code is missing or
\* not in the code table.
C8_ConditionNonEmpty ==
  Ok => \A e \in Entries :
          /\ e.condition.t = "str"
          /\ Len(e.condition.s) > 0

C8_Witness ==
  /\ Ok
  /\ Payload.current.weather_code = Undef
  /\ At(Payload.hourly.weather_code, 0) = Whole(-1)
  /\ Len(Payload.daily.weather_code.a) < 7
  /\ body.current.condition = Str("Unknown")
  /\ body.hourly[1].condition = Str("Unknown")
  /\ body.daily[7].condition = Str("Unknown")

\* the codes the claim lists as the table's
ListedCodes ==
  {0, 1, 2, 3, 45, 48, 51, 53, 55, 56, 57, 61, 63, 65, 66, 67,
   71, 73, 75, 77, 80, 81, 82, 85, 86, 95, 96, 99}

\* C9: getWeatherCondition is total over the integers: a code of the WMO
\* table yields that code's label, every other integer (negative ones
\* included) yields "Unknown".
C9_MapperTotal ==
  fn = "getWeatherCondition" =>
    LET c == input.v \div Unit IN
      /\ c \in ListedCodes => output = Str(WMO_WEATHER_CODES[c])
      /\ c \notin ListedCodes => output = Str("Unknown")
      /\ output.t = "str" /\ Len(output.s) > 0
      /\ ListedCodes = DOMAIN WMO_WEATHER_CODES

C9_Witness ==
  /\ fn = "getWeatherCondition"
  /\ input = Whole(0)
  /\ output = Str("Clear")

\* the multiple of 0.1 nearest to the number v (either one at a tie)
IsTenthNearest(r, v) ==
  /\ r % (Unit \div 10) = 0
  /\ 2 * (IF r >= v THEN r - v ELSE v - r) <= Unit \div 10

\* C10: in every HTTP 200 response, every hourly entry has temperature_min,
\* temperature_max and temperature equal, and equal to that hour's provider
\* reading rounded to one decimal.
C10_HourlyDegenerateBounds ==
  Ok => \A i \in DOMAIN body.hourly :
          LET e == body.hourly[i]
              reading == At(Payload.hourly.temperature_2m, i - 1)
          IN /\ e.temperature_min = e.temperature
             /\ e.temperature_max = e.temperature
             /\ IsNum(reading) =>
                  /\ IsNum(e.temperature)
                  /\ IsTenthNearest(e.temperature.v, reading.v)

C10_Witness ==
  /\ Ok
  /\ At(Payload.hourly.temperature_2m, 1) = Reading(-125)
  /\ body.hourly[2].temperature = Reading(-120)
  /\ body.hourly[2].temperature_min = Reading(-120)
  /\ body.hourly[2].temperature_max = Reading(-120)

\* the hour of an entry's timestamp
HourOf(time) == time.iso
HasTime(e) == e.time.t = "str"

\* C11: in every HTTP 200 response the hourly entries are chronologically
\* increasing and the first one is the forecast point for the hour of
\* current.time (entries without a time are not held against the
\* statement).
C11_HourlyAnchoredAtNow ==
  Ok =>
    /\ \A i, j \in DOMAIN body.hourly :
         (i < j /\ HasTime(body.hourly[i]) /\ HasTime(body.hourly[j])) =>
           HourOf(body.hourly[i].time) < HourOf(body.hourly[j].time)
    /\ (HasTime(body.hourly[1]) /\ HasTime(body.current)) =>
         HourOf(body.hourly[1].time) = HourOf(body.current.time)

\* the match the geocoding service returned
ReturnedMatch == geocodeReply.data.results.a[1]

HasMatch ==
  /\ geocodeReply.kind = "json"
  /\ ~IsNullish(geocodeReply.data)
  /\ Truthy(geocodeReply.data.results)
  /\ Len(geocodeReply.data.results.a) > 0
  /\ ~IsNullish(ReturnedMatch)

\* C12: the outbound calls of a request are sequential and at most two: the
\* geocode call first; the forecast call only once the geocode call has
\* returned a match, with that match's latitude and longitude; a 404 has
\* issued exactly one call, a 200 or a 500 exactly two.
C12_CallsSequential ==
  /\ Len(calls) <= 2
  /\ Len(calls) >= 1 => calls[1] = GeocodeCall(locationParam)
  /\ pc = "geocode" => Len(calls) = 1 /\ geocodeReply = NoReply
  /\ Len(calls) = 2 =>
       /\ HasMatch
       /\ calls[2].svc = "forecast"
       /\ calls[2].latitude = ReturnedMatch.latitude
       /\ calls[2].longitude = ReturnedMatch.longitude
  /\ pc = "forecast" => Len(calls) = 2 /\ forecastReply = NoReply
  /\ (pc = "done" /\ status = 404) => Len(calls) = 1
  /\ (pc = "done" /\ status \in {200, 500}) => Len(calls) = 2

C12_Witness ==
  /\ pc = "done"
  /\ status = 500
  /\ Len(calls) = 2
  /\ calls[2].latitude = Reading(-3387)
  /\ calls[2].longitude = Reading(15121)

CallsTo(svc) == Cardinality({i \in DOMAIN calls : calls[i].svc = svc})

SomeCallFailed ==
  \/ geocodeReply.kind \in {"throw", "notok", "badjson"}
  \/ forecastReply.kind \in {"throw", "notok", "badjson"}

\* C13: no outbound call is issued twice for a request, a failed call ends
\* the request, the response is one of 200, 400, 404, 500 and is not
\* replaced once sent, and (every outbound call eventually settling) a
\* request that awaits a call eventually responds.
C13_RespondsOnce ==
  /\ [](CallsTo("geocode") <= 1 /\ CallsTo("forecast") <= 1)
  /\ [](SomeCallFailed => pc = "done" /\ status \in {404, 500})
  /\ [](pc = "done" => status \in {200, 400, 404, 500})
  /\ [](pc /= "done" => status = 0 /\ body = NoBody)
  /\ [][pc = "done" =>
          \/ pc' = "idle"
          \/ pc' = "done" /\ status' = status /\ body' = body /\ calls' = calls]_vars
  /\ (pc \in {"geocode", "forecast"} ~> pc = "done")

C13_Witness ==
  /\ pc = "done"
  /\ status = 500
  /\ forecastReply.kind = "throw"
  /\ CallsTo("geocode") = 1
  /\ CallsTo("forecast") = 1

\* C15: in every HTTP 200 response location is a non-empty string, also
\* for a match that supplies none of name, admin1 and country.
C15_LocationNonEmpty ==
  Ok => /\ body.location.t = "str"
        /\ Len(body.location.s) > 0

C15_Witness ==
  /\ Ok
  /\ ~Truthy(ReturnedMatch.name)
  /\ ~Truthy(ReturnedMatch.admin1)
  /\ ~Truthy(ReturnedMatch.country)
  /\ body.location = locationParam

\* C16: in every HTTP 200 response timezone is the provider's timezone
\* unchanged when the provider supplied a non-empty one and "UTC" when the
\* provider's is absent or empty; it is always a non-empty string.
C16_TimezoneOrUtc ==
  Ok => /\ Payload.timezone \in {Undef, Str("")} => body.timezone = Str("UTC")
        /\ Payload.timezone \notin {Undef, Str("")} =>
             body.timezone = Payload.timezone
        /\ body.timezone.t = "str"
        /\ Len(body.timezone.s) > 0

C16_Witness ==
  /\ Ok
  /\ Payload.timezone = Str("")
  /\ body.timezone = Str("UTC")

\* the daily points of the payload that hold a minimum and a maximum
DailyPoints ==
  {i \in DOMAIN body.daily :
     /\ IsNum(At(Payload.daily.temperature_2m_min, i - 1))
     /\ IsNum(At(Payload.daily.temperature_2m_max, i - 1))}

\* C18 as stated: each daily temperature is the mean of the entry's rounded
\* temperature_min and temperature_max, rounded again to one decimal.
C18_MeanOfRoundedBounds ==
  Ok => \A i \in DailyPoints :
          LET e == body.daily[i] IN
            e.temperature =
              RoundTenth(DividedBy(Plus(e.temperature_min, e.temperature_max), 2))

\* C18, amended: each daily temperature is the mean of the provider's
\* unrounded minimum and maximum, rounded once to one decimal (a tie going
\* up).
C18_MeanOfRawBounds ==
  Ok => \A i \in DailyPoints :
          LET e == body.daily[i]
              avg == (At(Payload.daily.temperature_2m_min, i - 1).v
                        + At(Payload.daily.temperature_2m_max, i - 1).v) \div 2
              half == Unit \div 20
          IN /\ IsNum(e.temperature)
             /\ e.temperature.v % (Unit \div 10) = 0
             /\ e.temperature.v - half <= avg
             /\ avg < e.temperature.v + half

C18_Witness ==
  /\ Ok
  /\ At(Payload.daily.temperature_2m_min, 0) = Reading(-140)
  /\ At(Payload.daily.temperature_2m_max, 0) = Reading(325)
  /\ body.daily[1].temperature_min = Reading(-140)
  /\ body.daily[1].temperature_max = Reading(330)
  /\ body.daily[1].temperature = Reading(90)

Supplied(x) == x \notin {Undef, Null, Str("")}

\* the match the resolver was given
ResolverMatch == At(input.reply.data.results, 0)

\* C14: the display name is name, admin1 and country in that order, joined
\* by ", ", leaving out each part that is missing or empty; with no part
\* at all it is the text that was asked for.
C14_DisplayName ==
  fn = "getCoordinatesFromCity" =>
    LET n == ResolverMatch.name
        a == ResolverMatch.admin1
        c == ResolverMatch.country
    IN output.location =
         CASE Supplied(n) /\ Supplied(a) /\ Supplied(c) ->
                Str(n.s \o ", " \o a.s \o ", " \o c.s)
           [] Supplied(n) /\ Supplied(a) /\ ~Supplied(c) ->
                Str(n.s \o ", " \o a.s)
           [] Supplied(n) /\ ~Supplied(a) /\ Supplied(c) ->
                Str(n.s \o ", " \o c.s)
           [] ~Supplied(n) /\ Supplied(a) /\ Supplied(c) ->
                Str(a.s \o ", " \o c.s)
           [] Supplied(n) /\ ~Supplied(a) /\ ~Supplied(c) -> n
           [] ~Supplied(n) /\ Supplied(a) /\ ~Supplied(c) -> a
           [] ~Supplied(n) /\ ~Supplied(a) /\ Supplied(c) -> c
           [] OTHER -> input.cityName

C14_Witness ==
  /\ fn = "getCoordinatesFromCity"
  /\ input.cityName = Str("paris, tx")
  /\ ResolverMatch.name = Str("Paris")
  /\ ResolverMatch.admin1 = Str("")
  /\ ResolverMatch.country = Str("France")
  /\ output.location = Str("Paris, France")

\* the characters a query value may hold without changing its meaning
UrlSafe ==
  Unreserved \cup {"%", "0", "2", "3", "5", "6", "9", "A", "B", "C", "D"}

\* C17: with no location in the page URL, or an empty one, the page asks
\* /api/weather for "San Francisco"; otherwise it asks for the URL's
\* location, encoded so that the endpoint reads back exactly that text.
C17_PageRequest ==
  fn = "fetchWeather" =>
    LET location == IF input \in {Null, Text(<<>>)} THEN DEFAULT_CITY ELSE input
        sent == output.location.chars
    IN /\ output.path = "/api/weather"
       /\ \A i \in 1..Len(sent) : sent[i] \in UrlSafe
       /\ QueryDecode(sent) = location.chars
       /\ input \in {Null, Text(<<>>)} =>
            sent = <<"S", "a", "n", "%", "2", "0",
                     "F", "r", "a", "n", "c", "i", "s", "c", "o">>

C17_Witness ==
  /\ fn = "fetchWeather"
  /\ input = Text(<<"a", "&", "é">>)
  /\ output.location = Text(<<"a", "%", "2", "6", "%", "C", "3", "%", "A", "9">>)

Abs(n) == IF n < 0 THEN 0 - n ELSE n

Tenth == Unit \div 10

\* the reading lies exactly halfway between two tenths
IsHalfway(x) == x.v % Tenth = Tenth \div 2

\* C19, as stated: the rounding takes a reading that is halfway between two
\* tenths to the tenth farther from zero, below zero as well as above.
C19_HalvesAwayFromZero ==
  fn = "roundTenth" /\ IsHalfway(input) =>
    Abs(output.v) = Abs(input.v) + Tenth \div 2

\* C19, amended: the rounding gives the nearest tenth, and takes a reading
\* halfway between two tenths to the greater one: away from zero above
\* zero, towards zero below it.
C19_HalvesUp ==
  fn = "roundTenth" =>
    /\ IsNum(output)
    /\ output.v % Tenth = 0
    /\ 2 * Abs(output.v - input.v) <= Tenth
    /\ IsHalfway(input) => output.v = input.v + Tenth \div 2

C19_Witness ==
  /\ fn = "roundTenth"
  /\ input = Reading(-125)
  /\ output = Reading(-120)

\* C20: rounding a rounded value gives that value again.
C20_RoundingIdempotent ==
  fn = "roundTenth" => RoundTenth(output) = output

C20_Witness ==
  /\ fn = "roundTenth"
  /\ input = Reading(37)
  /\ output = Reading(40)
  /\ RoundTenth(Reading(40)) = Reading(40)

\* C21: in every HTTP 200 response the current entry's temperature_min and
\* temperature_max are the provider's first daily minimum and maximum
\* rounded to one decimal, hence those of daily[0], whatever the current
\* reading is.
C21_CurrentBoundsFromToday ==
  Ok =>
    LET tmin == At(Payload.daily.temperature_2m_min, 0)
        tmax == At(Payload.daily.temperature_2m_max, 0)
    IN /\ body.current.temperature_min = body.daily[1].temperature_min
       /\ body.current.temperature_max = body.daily[1].temperature_max
       /\ IsNum(tmin) => /\ IsNum(body.current.temperature_min)
                         /\ IsTenthNearest(body.current.temperature_min.v, tmin.v)
       /\ IsNum(tmax) => /\ IsNum(body.current.temperature_max)
                         /\ IsTenthNearest(body.current.temperature_max.v, tmax.v)

\* a current reading (23.17) far above today's maximum (3.25)
C21_Witness ==
  /\ Ok
  /\ Payload.current.temperature_2m = Reading(2317)
  /\ At(Payload.daily.temperature_2m_max, 0) = Reading(325)
  /\ body.current.temperature = Reading(2320)
  /\ body.current.temperature_min = Reading(-140)
  /\ body.current.temperature_max = Reading(330)

\* the UV index r is what the provider's reading x gives: the nearest
\* integer, and 0 for a reading that is missing or not a number
IsUvOf(r, x) ==
  /\ IsNum(r)
  /\ r.v % Unit = 0
  /\ IF IsNum(ToNumber(x))
     THEN 2 * Abs(r.v - ToNumber(x).v) <= Unit
     ELSE r = Whole(0)

\* C22: uv_index is always an integer: for the current entry and each daily
\* entry the provider's UV reading rounded to the nearest integer, 0 when
\* the reading is missing, zero or not a number; 0 for every hourly entry.
C22_UvInteger ==
  Ok =>
    /\ IsUvOf(body.current.uv_index, Payload.current.uv_index)
    /\ \A i \in DOMAIN body.daily :
         IsUvOf(body.daily[i].uv_index, At(Payload.daily.uv_index_max, i - 1))
    /\ \A i \in DOMAIN body.hourly : body.hourly[i].uv_index = Whole(0)

C22_Witness ==
  /\ Ok
  /\ Payload.current.uv_index = Str("n/a")
  /\ body.current.uv_index = Whole(0)
  /\ At(Payload.daily.uv_index_max, 2) = Reading(-50)
  /\ body.daily[3].uv_index = Whole(0)
  /\ At(Payload.daily.uv_index_max, 4) = Reading(150)
  /\ body.daily[5].uv_index = Whole(2)
  /\ At(Payload.daily.uv_index_max, 6) = Undef
  /\ body.daily[7].uv_index = Whole(0)

\* C23: hourly[i] is built from point i of the provider's hourly series
\* (time copied, temperature and code of that point) for i in 0..23 and
\* daily[j] from point j of the daily series for j in 0..6, in the
\* provider's order; points from index 24 (7) on leave no trace.
C23_PositionalMapping ==
  Ok =>
    /\ \A i \in 1..HourlyCount :
         LET e == body.hourly[i]
             temp == At(Payload.hourly.temperature_2m, i - 1)
         IN /\ e.time = Json(At(Payload.hourly.time, i - 1))
            /\ IsNum(temp) => /\ IsNum(e.temperature)
                              /\ IsTenthNearest(e.temperature.v, temp.v)
            /\ e.condition =
                 getWeatherCondition(At(Payload.hourly.weather_code, i - 1))
    /\ \A j \in 1..DailyCount :
         LET e == body.daily[j]
             tmin == At(Payload.daily.temperature_2m_min, j - 1)
             tmax == At(Payload.daily.temperature_2m_max, j - 1)
         IN /\ e.time = Json(At(Payload.daily.time, j - 1))
            /\ IsNum(tmin) => /\ IsNum(e.temperature_min)
                              /\ IsTenthNearest(e.temperature_min.v, tmin.v)
            /\ IsNum(tmax) => /\ IsNum(e.temperature_max)
                              /\ IsTenthNearest(e.temperature_max.v, tmax.v)
            /\ e.condition =
                 getWeatherCondition(At(Payload.daily.weather_code, j - 1))
            /\ IsUvOf(e.uv_index, At(Payload.daily.uv_index_max, j - 1))
    /\ DOMAIN body.hourly = 1..HourlyCount
    /\ DOMAIN body.daily = 1..DailyCount

\* both series one point longer than what is taken
C23_Witness ==
  /\ Ok
  /\ Len(Payload.hourly.time.a) = HourlyCount + 1
  /\ Len(Payload.daily.time.a) = DailyCount + 1
  /\ Payload.hourly.time.a[1] = IsoTime(0)
  /\ body.hourly[1].time = IsoTime(0)
  /\ body.hourly[HourlyCount].time = IsoTime(23)
  /\ body.daily[DailyCount].time = IsoTime(144)

\* the points of a 200 response past the end of the provider's series
HourlyPastEnd ==
  {i \in DOMAIN body.hourly : i > Len(Payload.hourly.temperature_2m.a)}
DailyPastEnd ==
  {j \in DOMAIN body.daily : j > Len(Payload.daily.temperature_2m_min.a)}

ShortSeries ==
  \/ Len(Payload.hourly.temperature_2m.a) < HourlyCount
  \/ Len(Payload.daily.temperature_2m_min.a) < DailyCount

\* C24: a forecast whose hourly series has fewer than 24 points, or whose
\* daily series has fewer than 7, is still answered with HTTP 200 and 24
\* hourly and 7 daily entries; the entries past the end of a series have an
\* undefined time (left out of the JSON body), NaN temperatures (null in
\* the JSON body) and the condition "Unknown".
C24_ShortSeriesStill200 ==
  (pc = "done" /\ forecastReply.kind = "json"
      /\ ~ReadThroughNullish(Payload) /\ ShortSeries) =>
    /\ status = 200
    /\ body.kind = "weather"
    /\ Len(body.hourly) = HourlyCount
    /\ Len(body.daily) = DailyCount
    /\ \A e \in {body.hourly[i] : i \in HourlyPastEnd}
                  \cup {body.daily[j] : j \in DailyPastEnd} :
         /\ e.time = Absent
         /\ e.temperature = Null
         /\ e.temperature_min = Null
         /\ e.temperature_max = Null
         /\ e.condition = Str("Unknown")

C24_Witness ==
  /\ Ok
  /\ Len(Payload.hourly.temperature_2m.a) = HourlyCount - 1
  /\ Len(Payload.daily.temperature_2m_min.a) = DailyCount - 1
  /\ body.hourly[HourlyCount].temperature = Null
  /\ body.hourly[HourlyCount - 1].temperature /= Null
  /\ body.daily[DailyCount].time = Absent
  /\ body.daily[DailyCount].condition = Str("Unknown")

\* C25: a daily entry whose provider minimum is at most the provider
\* maximum has temperature_min <= temperature <= temperature_max.
C25_DailyWithinBounds ==
  Ok => \A i \in DailyPoints :
          LET e == body.daily[i] IN
            At(Payload.daily.temperature_2m_min, i - 1).v
                <= At(Payload.daily.temperature_2m_max, i - 1).v
              => /\ e.temperature_min.v <= e.temperature.v
                 /\ e.temperature.v <= e.temperature_max.v

\* a minimum and maximum 4.65 apart, and the rounded mean between them
C25_Witness ==
  /\ Ok
  /\ At(Payload.daily.temperature_2m_min, 6) = Reading(550)
  /\ At(Payload.daily.temperature_2m_max, 6) = Reading(1015)
  /\ body.daily[7].temperature_min = Reading(550)
  /\ body.daily[7].temperature = Reading(780)
  /\ body.daily[7].temperature_max = Reading(1020)

\* the reply a fetch got was an OK response
GotOk(reply) == reply.kind = "response" /\ reply.status = 200

AllSettled ==
  /\ fetches /= <<>>
  /\ \A i \in DOMAIN fetches : fetches[i].reply /= InFlight

\* C27: once every fetch has settled, the page shows the outcome of the
\* fetch started last (the one for the URL's current location): its
\* forecast if it got an OK response, the error view otherwise, in whatever
\* order the fetches settled.
C27_ShowsLatestLocation ==
  AllSettled =>
    LET latest == fetches[Len(fetches)].reply IN
      IF GotOk(latest)
      THEN View = "forecast" /\ data = latest.body
      ELSE View = "error"

\* the reply of the fetch that settled last
LatestSettled == fetches[settled[Len(settled)]].reply

\* C28: a fetch starts with loading = true and error = null; when a fetch
\* settles loading is false, a non-OK response or a rejection stores no
\* data and leaves the error view shown, even over data held from an
\* earlier fetch, and the forecast view is shown only if the fetch that
\* settled last got an OK response and stored its data.
C28_FetchStateMachine ==
  /\ [](~loading =>
          /\ settled /= <<>>
          /\ View \in {"error", "forecast"}
          /\ View = "forecast" => GotOk(LatestSettled) /\ data = LatestSettled.body
          /\ ~GotOk(LatestSettled) => View = "error")
  /\ [][Len(fetches') > Len(fetches) => loading' /\ error' = Null]_vars
  /\ [][Len(settled') > Len(settled) =>
          /\ ~loading'
          /\ ~GotOk(LatestSettled') => data' = data /\ Truthy(error')]_vars

\* the first fetch stored its forecast, the second one failed
C28_Witness ==
  /\ settled = <<1, 2>>
  /\ GotOk(fetches[1].reply)
  /\ fetches[2].reply.status = 500
  /\ data = fetches[1].reply.body
  /\ ~loading
  /\ View = "error"

\* C29: every request the page issues carries a non-empty location, so the
\* endpoint never answers it with HTTP 400: a response it gets has status
\* 200, 404 or 500.
C29_PageNever400 ==
  \A i \in DOMAIN fetches :
    /\ Truthy(LocationRead(fetches[i].url))
    /\ fetches[i].reply.status /= 400
    /\ fetches[i].reply.kind = "response" =>
         fetches[i].reply.status \in {200, 404, 500}

\* an empty location parameter, asked for as the default city
C29_Witness ==
  /\ fetches /= <<>>
  /\ fetches[1].param = Text(<<>>)
  /\ LocationRead(fetches[1].url) = DEFAULT_CITY
  /\ fetches[1].reply.status = 404

\* request r has been answered
Answered(r) == requests[r].pc = "done"

\* requests r and q asked for the same location and got the same replies
SameInputs(r, q) ==
  /\ requests[r].locationParam = requests[q].locationParam
  /\ requests[r].geocodeReply = requests[q].geocodeReply
  /\ requests[r].forecastReply = requests[q].forecastReply

\* C26: the response to a request depends only on its location and on the
\* replies to its own geocode and forecast calls, whatever other requests
\* ran before it or interleaved with it; each request issues its own
\* geocode call and its own forecast call, nothing being reused.
C26_Stateless ==
  /\ \A r, q \in Requests :
       Answered(r) /\ Answered(q) /\ SameInputs(r, q) =>
         /\ requests[r].status = requests[q].status
         /\ requests[r].body = requests[q].body
         /\ requests[r].calls = requests[q].calls
  /\ \A r \in Requests :
       LET req == requests[r] IN
         /\ req.pc \in {"geocode", "forecast"} \/ req.status \in {200, 404, 500} =>
              req.calls[1] = GeocodeCall(req.locationParam)
         /\ req.pc = "forecast" \/ req.status \in {200, 500} =>
              /\ Len(req.calls) = 2
              /\ req.geocodeReply.kind = "json"
              /\ req.calls[2] = ForecastCall(req.geocodeResult.lat,
                                             req.geocodeResult.lon)
         /\ req.status = 404 => Len(req.calls) = 1
         /\ req.status = 400 => req.calls = <<>>

\* two requests for the same location, interleaved, answered alike, each
\* after its own two calls
C26_Witness ==
  /\ Answered(1) /\ Answered(2)
  /\ requests[1].locationParam = Str("Lyon")
  /\ SameInputs(1, 2)
  /\ requests[1].status = 200
  /\ requests[2].status = 200
  /\ requests[1].body = requests[2].body
  /\ requests[1].calls = requests[2].calls
  /\ Len(requests[2].calls) = 2

\* an entry as the claim describes the mock generator's
IsMockEntry(e) ==
  /\ IsNum(e.temperature) /\ IsNum(e.temperature_min) /\ IsNum(e.temperature_max)
  /\ Whole(-10).v <= e.temperature.v
  /\ e.temperature.v <= Whole(40).v
  /\ e.temperature_min.v <= e.temperature.v
  /\ e.temperature.v <= e.temperature_max.v
  /\ e.uv_index \in {Whole(n) : n \in 0..11}
  /\ e.condition \in {Str("Sunny"), Str("Cloudy"), Str("Rain"), Str("Snow"),
                      Str("Partly Cloudy"), Str("Thunderstorm")}

\* C30: whatever the random source yields, an entry of generateWeather has
\* its temperature within -10..40 and between its temperature_min and
\* temperature_max, an integer uv_index within 0..11 and a condition of the
\* preset list; the mock endpoint answers with 24 hourly and 7 daily such
\* entries, for "San Francisco" when no location is given.
C30_MockGenerator ==
  /\ fn = "generateWeather" => IsMockEntry(output)
  /\ fn = "mockGET" =>
       /\ IsMockEntry(output.current)
       /\ Len(output.hourly) = 24
       /\ Len(output.daily) = 7
       /\ \A i \in DOMAIN output.hourly : IsMockEntry(output.hourly[i])
       /\ \A i \in DOMAIN output.daily : IsMockEntry(output.daily[i])
       /\ output.location =
            IF input.location \in {Null, Str("")} THEN Str("San Francisco")
            ELSE input.location

\* the largest baseTemp and tempVariation draws, the last condition of the
\* list and a middling uv draw
C30_Witness ==
  /\ fn = "generateWeather"
  /\ input.draws = <<Eighth(7), Eighth(6), Reading(99), Reading(0)>>
  /\ output.temperature = Reading(3380)
  /\ output.temperature_min = Reading(2960)
  /\ output.temperature_max = Reading(3790)
  /\ output.condition = Str("Thunderstorm")
  /\ output.uv_index = Whole(0)

====
